---- MODULE Spec2Model ----
\* FYP Handbook RAG assistant: the query pipeline of src/ask.py
\* (retrieve, check_relevance, ask), the persistence protocol of src/utils.py
\* (save_embeddings, load_embeddings), the chunker of src/utils.py
\* (chunk_text_with_overlap) and its caller create_chunks of src/ingest.py.
\*
\* Specifications: Spec (queries on a loaded assistant), SpecPersist
\* (ingestion runs and loads side by side), SpecChunk (one chunker call),
\* SpecCreate (one create_chunks call), SpecGate (the relevance gate alone).
\*
\* Scores are cosine similarities in hundredths (0.25 is 25, 0.5 is 50).
\* A text is a sequence of tokens; a token is a tuple (<<"w", d, i>> is a word).
EXTENDS Integers, Sequences, FiniteSets, TLC

VARIABLES
    index,              \* HandbookAssistant.index: the loaded FAISS index
    metadata,           \* HandbookAssistant.metadata: the loaded chunk list
    encoder,            \* HandbookAssistant.encoder: the embedding model in use
    retrieved_chunks,   \* the list the last retrieve() call returned
    result,             \* the dictionary the last ask() call returned
    outcome,            \* how the last call ended
    prompt_log,         \* the interaction log file (logs/prompt_log.txt)
    assistant,          \* "none" until HandbookAssistant.__init__ has returned
    call_top_k,         \* the top_k of the last retrieve() call
    log_failed,         \* whether log_prompt raised in the last ask() call
    faiss_index_file,   \* data/embeddings/faiss.index
    meta_pkl_file,      \* data/embeddings/meta.pkl
    model_name_file,    \* data/embeddings/model_name.txt
    ingest_pc,          \* where the ingestion run is inside save_embeddings
    ingest_doc,         \* the document the ingestion run is saving
    text,               \* chunk_text_with_overlap: the page text passed in
    chunk_size_words,   \* chunk_text_with_overlap: the target size passed in
    overlap_pct,        \* chunk_text_with_overlap: the overlap, in percent
    min_chunk_size,     \* config.MIN_CHUNK_SIZE when the chunker runs
    page_chunks,        \* what the chunker call returned
    chunk_pc,           \* "idle", "called", "returned" or "raised"
    page_texts,         \* create_chunks: the page number -> text mapping passed in
    all_chunks,         \* create_chunks: the list it returned
    create_pc,          \* "idle", "called", "returned" or "raised"
    gate_chunks,        \* the list retrieve() handed to the gate of ask()
    gate_threshold,     \* config.SIMILARITY_THRESHOLD, in hundredths, at that call
    gate_result,        \* the dictionary that ask() call returned
    gate_pc,            \* "idle", "called", "declined" or "passed"
    chat_history,       \* simple UI: st.session_state.chat_history
    last_question,      \* simple UI: st.session_state.last_question
    ui_pc,              \* simple UI: "idle", or "rerun" after st.rerun()
    submitted,          \* simple UI: questions the user has submitted so far
    runs                \* simple UI: script runs so far

\* The state of one assistant process and of the call it is serving.
query_vars == <<index, metadata, encoder, retrieved_chunks, result, outcome,
                assistant, call_top_k, log_failed>>

\* The persisted files and the ingestion run writing them.
disk_vars == <<faiss_index_file, meta_pkl_file, model_name_file, ingest_pc,
               ingest_doc>>

\* One call of the chunker.
chunk_vars == <<text, chunk_size_words, overlap_pct, min_chunk_size,
                page_chunks, chunk_pc>>

\* One call of create_chunks.
create_vars == <<page_texts, all_chunks, create_pc>>

\* One call of ask() seen from its relevance gate on.
gate_vars == <<gate_chunks, gate_threshold, gate_result, gate_pc>>

\* The session of the simple chat UI.
simple_vars == <<chat_history, last_question, ui_pc, submitted, runs>>

vars == <<query_vars, prompt_log, disk_vars, chunk_vars, create_vars, gate_vars,
          simple_vars>>

-----------------------------------------------------------------------------
\* Bounds of the model.

\* Largest number of chunks of a persisted corpus.
MaxChunks == 5

\* Largest number of chunks that ingestion puts on one page.
MaxPerPage == 2

\* Largest top_k of a direct retrieve() call.
MaxTopK == 3

\* Largest number of records the interaction log holds.
MaxLog == 2

\* Number of handbook versions an ingestion run can be given.
MaxDocs == 3

\* Largest number of words of a page text given to the chunker.
MaxWords == 3

\* Largest target chunk size, in words, given to the chunker.
MaxChunkSize == 4

\* Largest page number of a handbook given to create_chunks.
MaxPages == 3

\* Longest list handed to check_relevance on its own.
MaxGateChunks == 2

\* Script runs of one simple chat UI session.
MaxRuns == 5

\* Program constants (config.py).
TOP_K == 5

SIMILARITY_THRESHOLD == 25

EMBEDDING_DIMENSION == 384

EMBEDDING_MODEL == "sentence-transformers/all-MiniLM-L6-v2"

\* The cut point of the confidence tier in ask(): 0.5.
HighConfidence == 50

\* The cosine scores a query can give a stored row: just below and at the
\* threshold, at and just above the confidence cut point.
Scores == {24, 25, 50, 51}

\* The scores of a direct retrieve() call, which no gate looks at: two
\* values, enough for rows of equal and of different score.
RetrieveScores == {SIMILARITY_THRESHOLD, HighConfidence}

Questions == {"What margins are required?"}

\* The embedding models a configuration can name, and their dimensions.
Models == {EMBEDDING_MODEL, "sentence-transformers/all-MiniLM-L12-v2",
           "sentence-transformers/all-mpnet-base-v2"}

Dim(m) == IF m = "sentence-transformers/all-mpnet-base-v2"
          THEN 2 * EMBEDDING_DIMENSION ELSE EMBEDDING_DIMENSION

-----------------------------------------------------------------------------
\* A file of the embeddings directory: absent, or holding one written value.

NoFile == [exists |-> FALSE, content |-> <<>>]

File(content) == [exists |-> TRUE, content |-> content]

-----------------------------------------------------------------------------
\* Python list helpers.

Range(s) == {s[i] : i \in 1..Len(s)}

Max(S) == CHOOSE x \in S : \A y \in S : y <= x

\* Position (1-based) of list[idx] for a Python index idx, 0 when list[idx]
\* raises IndexError. A negative idx counts from the end of the list.
PyIndex(n, idx) ==
    IF idx >= 0 /\ idx < n THEN idx + 1
    ELSE IF idx < 0 /\ idx >= -n THEN n + idx + 1
    ELSE 0

-----------------------------------------------------------------------------
\* Text. A string is a sequence of characters, a character a tuple.

SP == <<" ">>

NL == <<"\n">>

DOT == <<".">>

Whitespace == {SP, NL}

UpperChars == {<<"A">>, <<"B">>}

DigitChars == {<<"1">>}

\* Characters with a case; every other letter of the model is lower case.
IsCased(c) == c \notin Whitespace \cup DigitChars \cup {DOT}

\* The first position from i on (Len(s) + 1 when there is none) whose
\* character is in the set `stops`.
FirstIn(s, i, stops) ==
    CHOOSE j \in i..(Len(s) + 1) :
        /\ j = Len(s) + 1 \/ s[j] \in stops
        /\ \A k \in i..(j - 1) : s[k] \notin stops

\* The first position from i on (Len(s) + 1 when there is none) whose
\* character is not in the set `skipped`.
FirstNotIn(s, i, skipped) ==
    CHOOSE j \in i..(Len(s) + 1) :
        /\ j = Len(s) + 1 \/ s[j] \notin skipped
        /\ \A k \in i..(j - 1) : s[k] \in skipped

\* str.split(): the maximal runs of non-whitespace characters, from
\* position i on.
RECURSIVE SplitFrom(_, _)
SplitFrom(s, i) ==
    LET a == FirstNotIn(s, i, Whitespace)
    IN  IF a > Len(s) THEN <<>>
        ELSE LET b == FirstIn(s, a, Whitespace)
             IN  <<SubSeq(s, a, b - 1)>> \o SplitFrom(s, b)

Split(s) == SplitFrom(s, 1)

\* str.split('\n'): the pieces between newlines, empty ones kept.
RECURSIVE SplitLinesFrom(_, _)
SplitLinesFrom(s, i) ==
    LET b == FirstIn(s, i, {NL})
    IN  IF b > Len(s) THEN <<SubSeq(s, i, Len(s))>>
        ELSE <<SubSeq(s, i, b - 1)>> \o SplitLinesFrom(s, b + 1)

SplitLines(s) == SplitLinesFrom(s, 1)

\* " ".join(words)
RECURSIVE JoinWords(_)
JoinWords(words) ==
    IF words = <<>> THEN <<>>
    ELSE IF Len(words) = 1 THEN words[1]
    ELSE words[1] \o <<SP>> \o JoinWords(Tail(words))

\* str.strip()
RECURSIVE Strip(_)
Strip(s) ==
    IF s = <<>> THEN <<>>
    ELSE IF s[1] \in Whitespace THEN Strip(Tail(s))
    ELSE IF s[Len(s)] \in Whitespace THEN Strip(SubSeq(s, 1, Len(s) - 1))
    ELSE s

\* s[:n]
Prefix(s, n) == SubSeq(s, 1, IF Len(s) < n THEN Len(s) ELSE n)

\* str.isupper(): some cased character, and every cased character upper case.
IsUpper(s) ==
    /\ \E i \in 1..Len(s) : IsCased(s[i])
    /\ \A i \in 1..Len(s) : IsCased(s[i]) => s[i] \in UpperChars

\* re.match(r'^\d+\.?\s+[A-Z]', line)
NumberedHeading(line) ==
    \E nd \in 1..Len(line) :
        /\ \A i \in 1..nd : line[i] \in DigitChars
        /\ nd < Len(line) /\ line[nd + 1] \notin DigitChars
        /\ LET a == IF line[nd + 1] = DOT THEN nd + 1 ELSE nd
           IN  \E b \in (a + 1)..(Len(line) - 1) :
                  /\ \A i \in (a + 1)..b : line[i] \in Whitespace
                  /\ line[b + 1] \in UpperChars

\* extract_section_hint (utils.py:61-76).
HintLines == 3

HintMinLen == 5

HintMaxLen == 100

HintPrefix == 50

\* The heading test without its upper limit on the line's length.
IsHeadingOfAnyLength(line) ==
    /\ Len(line) > HintMinLen
    /\ (IsUpper(line) \/ NumberedHeading(line))

IsHeading(line) ==
    /\ Len(line) > HintMinLen /\ Len(line) < HintMaxLen
    /\ (IsUpper(line) \/ NumberedHeading(line))

extract_section_hint(s) ==
    LET lines == SplitLines(s)
        cand == [i \in 1..(IF Len(lines) < HintLines THEN Len(lines) ELSE HintLines)
                   |-> Strip(lines[i])]
        hits == {i \in 1..Len(cand) : IsHeading(cand[i])}
    IN  IF hits # {}
        THEN cand[CHOOSE i \in hits : \A j \in hits : i <= j]
        ELSE Strip([i \in 1..Len(Prefix(s, HintPrefix)) |->
                       IF s[i] = NL THEN SP ELSE s[i]]) \o <<DOT, DOT, DOT>>

-----------------------------------------------------------------------------
\* chunk_text_with_overlap (utils.py:15-58).

\* One chunk dictionary (utils.py:45-55).
Chunk(chunk_words, page) ==
    [text |-> JoinWords(chunk_words),
     page |-> page,
     section |-> extract_section_hint(JoinWords(chunk_words)),
     word_count |-> Len(chunk_words)]

\* The loop without its test of the window's length.
RECURSIVE WindowsKeepShort(_, _, _, _, _, _)
WindowsKeepShort(words, i, size, step, min_size, page) ==
    IF i >= Len(words) THEN <<>>
    ELSE LET last == IF i + size < Len(words) THEN i + size ELSE Len(words)
         IN  <<Chunk(SubSeq(words, i + 1, last), page)>>
               \o WindowsKeepShort(words, i + step, size, step, min_size, page)

\* The loop over range(0, len(words), step) from position i on, for
\* step >= 1: it stops at the first window shorter than min_size.
RECURSIVE Windows(_, _, _, _, _, _)
Windows(words, i, size, step, min_size, page) ==
    IF i >= Len(words) THEN <<>>
    ELSE LET last == IF i + size < Len(words) THEN i + size ELSE Len(words)
             chunk_words == SubSeq(words, i + 1, last)
         IN  IF Len(chunk_words) < min_size THEN <<>>
             ELSE <<Chunk(chunk_words, page)>>
                    \o Windows(words, i + step, size, step, min_size, page)

\* int(chunk_size_words * overlap_pct), the overlap given in percent.
OverlapWords(size, pct) == (size * pct) \div 100

\* The chunker striding by whole windows: step = chunk_size_words.
chunk_text_without_overlap(s, page, size, pct, min_size) ==
    LET words == Split(s)
    IN  IF Len(words) < min_size THEN [error |-> "none", chunks |-> <<>>]
        ELSE [error |-> "none",
              chunks |-> Windows(words, 0, size, size, min_size, page)]

\* [error, chunks]. range() raises ValueError for a step of zero and is
\* empty for a negative step.
chunk_text_with_overlap(s, page, size, pct, min_size) ==
    LET words == Split(s)
        step == size - OverlapWords(size, pct)
    IN  IF Len(words) < min_size THEN [error |-> "none", chunks |-> <<>>]
        ELSE IF step = 0 THEN [error |-> "ValueError", chunks |-> <<>>]
        ELSE IF step < 0 THEN [error |-> "none", chunks |-> <<>>]
        ELSE [error |-> "none",
              chunks |-> Windows(words, 0, size, step, min_size, page)]

\* No chunker call is in progress.
NoChunkerCall ==
    /\ text = <<>>
    /\ chunk_size_words = 0
    /\ overlap_pct = 0
    /\ min_chunk_size = 0
    /\ page_chunks = <<>>
    /\ chunk_pc = "idle"

\* No create_chunks call is in progress.
NoCreateCall ==
    /\ page_texts = <<>>
    /\ all_chunks = <<>>
    /\ create_pc = "idle"

\* No ask() call is at its gate.
NoGateCall ==
    /\ gate_chunks = <<>>
    /\ gate_threshold = 0
    /\ gate_result = <<>>
    /\ gate_pc = "idle"

\* No simple chat UI session is open.
NoSimpleUI ==
    /\ chat_history = <<>>
    /\ last_question = <<>>
    /\ ui_pc = "idle"
    /\ submitted = 0
    /\ runs = 0

-----------------------------------------------------------------------------
\* The corpus an ingestion run persists.

\* A lower-case word of one character, distinct for each (d, i).
W(d, i) == <<"w", d, i>>

\* Chunk i (1-based) of document d, with `per` chunks on each page: the
\* record create_chunks builds (ids from 0, pages ascending).
DocChunk(d, i, per) ==
    [chunk_id |-> i - 1,
     page |-> ((i - 1) \div per) + 1,
     text |-> <<W(d, i), SP, W(d, 0)>>,
     section |-> extract_section_hint(<<W(d, i), SP, W(d, 0)>>),
     word_count |-> 2]

DocChunks(d, n, per) == [i \in 1..n |-> DocChunk(d, i, per)]

\* The FAISS index build_faiss_index makes of the chunks' embeddings: row i
\* is the normalized vector of chunk i, named here by the text it embeds.
BuildIndex(chunks, model) ==
    [d |-> Dim(model),
     model |-> model,
     rows |-> [i \in 1..Len(chunks) |-> chunks[i].text]]

-----------------------------------------------------------------------------
\* faiss.IndexFlatIP.search as called at ask.py:78.

\* The score FAISS reports for a result slot it could not fill (-FLT_MAX).
PadScore == -34028235

Min(S) == CHOOSE x \in S : \A y \in S : x <= y

\* The best k rows, best first, as <<score, 0-based row>> pairs. FAISS does
\* not document the order of rows of equal score: `tie` is that order.
RECURSIVE TopRows(_, _, _, _)
TopRows(scoreOf, remaining, k, tie) ==
    IF k = 0 \/ remaining = {} THEN <<>>
    ELSE LET m == Max({scoreOf[i] : i \in remaining})
             best == {i \in remaining : scoreOf[i] = m}
             pick == IF tie = "asc" THEN Min(best) ELSE Max(best)
         IN  << <<m, pick - 1>> >> \o TopRows(scoreOf, remaining \ {pick}, k - 1, tie)

\* Exactly k slots: the best min(k, ntotal) rows in non-increasing score
\* order, then slots with label -1 and score PadScore.
search(ntotal, scoreOf, k, tie) ==
    LET top == TopRows(scoreOf, 1..ntotal, k, tie)
    IN  top \o [j \in 1..(k - Len(top)) |-> <<PadScore, -1>>]

-----------------------------------------------------------------------------
\* HandbookAssistant.retrieve (ask.py:57-87).

\* chunk = self.metadata[idx].copy(); chunk['score'] = float(score)
WithScore(chunk, score) == [score |-> score] @@ chunk

\* retrieve without the .copy(): the score is written into the stored
\* dictionary itself.
retrieve_no_copy(idx, meta, enc, scoreOf, top_k, tie) ==
    IF Dim(enc) # idx.d
    THEN [error |-> "AssertionError", chunks |-> <<>>, metadata |-> meta]
    ELSE LET hits == search(Len(idx.rows), scoreOf, top_k, tie)
             pos(j) == PyIndex(Len(meta), hits[j][2])
             last(i) == Max({j \in 1..Len(hits) : pos(j) = i})
             stored == [i \in 1..Len(meta) |->
                          IF \E j \in 1..Len(hits) : pos(j) = i
                          THEN WithScore(meta[i], hits[last(i)][1])
                          ELSE meta[i]]
         IN  IF \E j \in 1..Len(hits) : pos(j) = 0
             THEN [error |-> "IndexError", chunks |-> <<>>, metadata |-> meta]
             ELSE [error |-> "none",
                   chunks |-> [j \in 1..Len(hits) |-> stored[pos(j)]],
                   metadata |-> stored]

\* [error, chunks, metadata]: the returned list, or the exception the call
\* raises, and self.metadata after the call (the scores are written into
\* copies). The faiss wrapper asserts the query's dimension against the
\* index's; self.metadata[idx] raises IndexError outside the list and, as
\* any Python list, reads from the end for idx = -1.
retrieve(idx, meta, enc, scoreOf, top_k, tie) ==
    IF Dim(enc) # idx.d
    THEN [error |-> "AssertionError", chunks |-> <<>>, metadata |-> meta]
    ELSE LET hits == search(Len(idx.rows), scoreOf, top_k, tie)
             pos(j) == PyIndex(Len(meta), hits[j][2])
         IN  IF \E j \in 1..Len(hits) : pos(j) = 0
             THEN [error |-> "IndexError", chunks |-> <<>>, metadata |-> meta]
             ELSE [error |-> "none",
                   chunks |-> [j \in 1..Len(hits) |->
                                  WithScore(meta[pos(j)], hits[j][1])],
                   metadata |-> meta]

\* check_relevance with the comparison made strict.
check_relevance_strict(chunks) ==
    IF chunks = <<>> THEN FALSE
    ELSE Max({chunks[i].score : i \in 1..Len(chunks)}) > SIMILARITY_THRESHOLD

\* check_relevance taking 0 as the highest score of an empty list.
check_relevance_under_default_zero(chunks, threshold) ==
    LET max_score == IF chunks = <<>> THEN 0
                     ELSE Max({chunks[i].score : i \in 1..Len(chunks)})
    IN  max_score >= threshold

\* HandbookAssistant.check_relevance (ask.py:89-98) when
\* config.SIMILARITY_THRESHOLD is threshold.
check_relevance_under(chunks, threshold) ==
    IF chunks = <<>> THEN FALSE
    ELSE Max({chunks[i].score : i \in 1..Len(chunks)}) >= threshold

\* HandbookAssistant.check_relevance under the configured threshold.
check_relevance(chunks) == check_relevance_under(chunks, SIMILARITY_THRESHOLD)

-----------------------------------------------------------------------------
\* utils.format_retrieved_chunks, utils.get_unique_pages, utils.log_prompt.

DECLINE == << <<"I don't have that in the handbook.">> >>

BLANK == <<"\n\n">>

Cite(page) == <<" (p. )", page>>

\* sorted(S) for a finite set of integers.
RECURSIVE Sorted(_)
Sorted(S) == IF S = {} THEN <<>> ELSE <<Min(S)>> \o Sorted(S \ {Min(S)})

\* sep.join(parts) for a list of token sequences.
RECURSIVE Join(_, _)
Join(parts, sep) ==
    IF parts = <<>> THEN <<>>
    ELSE IF Len(parts) = 1 THEN parts[1]
    ELSE parts[1] \o <<sep>> \o Join(Tail(parts), sep)

\* The chunks of one page, in the order they arrived.
PageGroup(chunks, page) == SelectSeq(chunks, LAMBDA c : c.page = page)

\* The distinct pages of a list in the order they first appear in it (the
\* order of the keys of page_groups, and of a set turned into a list
\* without sorting it).
RECURSIVE FirstSeenPages(_)
FirstSeenPages(chunks) ==
    IF chunks = <<>> THEN <<>>
    ELSE LET front == FirstSeenPages(SubSeq(chunks, 1, Len(chunks) - 1))
             page == chunks[Len(chunks)].page
         IN  IF page \in Range(front) THEN front ELSE Append(front, page)

\* get_unique_pages without sorted().
get_unique_pages_unsorted(chunks) == FirstSeenPages(chunks)

\* utils.get_unique_pages (utils.py:211-213).
get_unique_pages(chunks) == Sorted({chunks[i].page : i \in 1..Len(chunks)})

\* f"{page_text} (p. {page})" for the chunks grouped under one page.
AnswerPart(chunks, page) ==
    LET grp == PageGroup(chunks, page)
    IN  Join([i \in 1..Len(grp) |-> grp[i].text], NL) \o <<Cite(page)>>

\* format_retrieved_chunks iterating page_groups.items() without sorted().
format_retrieved_chunks_unsorted(chunks) ==
    IF chunks = <<>> THEN DECLINE
    ELSE LET pages == FirstSeenPages(chunks)
         IN  Join([k \in 1..Len(pages) |-> AnswerPart(chunks, pages[k])], BLANK)

\* format_retrieved_chunks showing a preview of each text, as
\* format_sources_display does.
format_retrieved_chunks_preview(chunks) ==
    IF chunks = <<>> THEN DECLINE
    ELSE LET pages == Sorted({chunks[i].page : i \in 1..Len(chunks)})
             part(p) == LET grp == PageGroup(chunks, p)
                        IN  Join([i \in 1..Len(grp) |-> Prefix(grp[i].text, 2)], NL)
                              \o <<Cite(p)>>
         IN  Join([k \in 1..Len(pages) |-> part(pages[k])], BLANK)

\* format_retrieved_chunks returning an empty answer for an empty list.
format_retrieved_chunks_empty(chunks) ==
    IF chunks = <<>> THEN <<>>
    ELSE LET pages == Sorted({chunks[i].page : i \in 1..Len(chunks)})
         IN  Join([k \in 1..Len(pages) |-> AnswerPart(chunks, pages[k])], BLANK)

\* utils.format_retrieved_chunks (utils.py:127-151): the keys of page_groups
\* are the distinct pages, visited in sorted order.
format_retrieved_chunks(chunks) ==
    IF chunks = <<>> THEN DECLINE
    ELSE LET pages == Sorted({chunks[i].page : i \in 1..Len(chunks)})
         IN  Join([k \in 1..Len(pages) |-> AnswerPart(chunks, pages[k])], BLANK)

\* The record log_prompt appends (its timestamp left out).
LogEntry(question, chunks, answer) ==
    [question |-> question, top |-> Len(chunks)]

\* log_prompt opening the file with mode 'w'.
log_prompt_overwriting(log, question, chunks, answer) ==
    <<LogEntry(question, chunks, answer)>>

\* utils.log_prompt (utils.py:171-208): open(filepath, 'a') and one write.
log_prompt(log, question, chunks, answer) ==
    Append(log, LogEntry(question, chunks, answer))

-----------------------------------------------------------------------------
\* HandbookAssistant.ask (ask.py:100-143).

NoResult == [answer |-> <<>>, sources |-> <<>>, pages |-> <<>>,
             confidence |-> "none", max_score |-> 0]

\* The declined branch with another wording of the message.
DeclinedResultOtherText ==
    [answer |-> << <<"I don't have that in the handbook">> >>,
     sources |-> <<>>,
     pages |-> <<>>,
     confidence |-> "low",
     max_score |-> 0]

\* The dictionary of the declined branch (ask.py:119-125).
DeclinedResult ==
    [answer |-> << <<"I don't have that in the handbook.">> >>,
     sources |-> <<>>,
     pages |-> <<>>,
     confidence |-> "low",
     max_score |-> 0]

\* The answered branch with the threshold applied to each chunk.
AnsweredResultFiltered(chunks) ==
    LET kept == SelectSeq(chunks, LAMBDA c : c.score >= SIMILARITY_THRESHOLD)
    IN  [answer |-> format_retrieved_chunks(kept),
         sources |-> kept,
         pages |-> get_unique_pages(kept),
         confidence |-> IF chunks[1].score > HighConfidence THEN "high" ELSE "medium",
         max_score |-> chunks[1].score]

\* The answered branch with 0.5 itself counted as high.
AnsweredResultInclusive(chunks) ==
    [answer |-> format_retrieved_chunks(chunks),
     sources |-> chunks,
     pages |-> get_unique_pages(chunks),
     confidence |-> IF chunks[1].score >= HighConfidence THEN "high" ELSE "medium",
     max_score |-> chunks[1].score]

\* The dictionary of the answered branch (ask.py:128-141).
AnsweredResult(chunks) ==
    [answer |-> format_retrieved_chunks(chunks),
     sources |-> chunks,
     pages |-> get_unique_pages(chunks),
     confidence |-> IF chunks[1].score > HighConfidence THEN "high" ELSE "medium",
     max_score |-> chunks[1].score]

\* One call of ask(question). scoreOf is the inner product of the encoded
\* question with each stored row, tie the order FAISS gives equal scores,
\* io_ok whether the log file can be opened and written; r is what
\* self.retrieve(question) gives.
ask(question, scoreOf, tie, io_ok) ==
    /\ call_top_k' = TOP_K
    /\ \E r \in {retrieve(index, metadata, encoder, scoreOf, TOP_K, tie)} :
           /\ metadata' = r.metadata
           /\ IF r.error # "none"
              THEN /\ outcome' = "raised"
                   /\ retrieved_chunks' = <<>>
                   /\ result' = NoResult
                   /\ log_failed' = FALSE
                   /\ UNCHANGED prompt_log
              ELSE /\ retrieved_chunks' = r.chunks
                   /\ IF ~check_relevance(r.chunks)
                      THEN /\ outcome' = "declined"
                           /\ result' = DeclinedResult
                           /\ log_failed' = FALSE
                           /\ UNCHANGED prompt_log
                      ELSE IF ~io_ok
                      THEN /\ outcome' = "raised"
                           /\ result' = NoResult
                           /\ log_failed' = TRUE
                           /\ UNCHANGED prompt_log
                      ELSE /\ outcome' = "answered"
                           /\ log_failed' = FALSE
                           /\ result' = AnsweredResult(r.chunks)
                           /\ prompt_log' = log_prompt(prompt_log, question, r.chunks,
                                                       format_retrieved_chunks(r.chunks))
    /\ UNCHANGED <<index, encoder, assistant, disk_vars>>
    /\ UNCHANGED <<chunk_vars, create_vars, gate_vars, simple_vars>>

\* The CLI is at its prompt and a question is asked (ask.py:197, 234).
Ask ==
    /\ assistant = "ready"
    /\ outcome = "none"
    /\ Len(prompt_log) < MaxLog
    /\ \E question \in Questions, tie \in {"asc", "desc"}, io_ok \in BOOLEAN :
         \E scoreOf \in [1..Len(index.rows) -> Scores] :
            ask(question, scoreOf, tie, io_ok)

\* One direct call of retrieve(query, top_k).
Retrieve ==
    /\ assistant = "ready"
    /\ outcome = "none"
    /\ \E k \in 1..MaxTopK, tie \in {"asc", "desc"} :
         \E scoreOf \in [1..Len(index.rows) -> RetrieveScores] :
            \E r \in {retrieve(index, metadata, encoder, scoreOf, k, tie)} :
                /\ call_top_k' = k
                /\ outcome' = IF r.error = "none" THEN "retrieved" ELSE "raised"
                /\ retrieved_chunks' = r.chunks
                /\ metadata' = r.metadata
    /\ UNCHANGED <<index, encoder, assistant, prompt_log, result,
                   log_failed, disk_vars>>
    /\ UNCHANGED <<chunk_vars, create_vars, gate_vars, simple_vars>>

\* The caller is done with the returned value (ask.py:233-241: the CLI loop
\* displays the result, or prints the error, and prompts again).
Display ==
    /\ outcome # "none"
    /\ outcome' = "none"
    /\ retrieved_chunks' = <<>>
    /\ result' = NoResult
    /\ call_top_k' = 0
    /\ log_failed' = FALSE
    /\ UNCHANGED <<index, metadata, encoder, assistant, prompt_log, disk_vars>>
    /\ UNCHANGED <<chunk_vars, create_vars, gate_vars, simple_vars>>

-----------------------------------------------------------------------------
\* The query pipeline on an assistant that loaded a consistently persisted
\* corpus of 1..MaxChunks chunks.

Init ==
    /\ \E n \in 1..MaxChunks, per \in 1..MaxPerPage :
         /\ metadata = DocChunks(1, n, per)
         /\ index = BuildIndex(DocChunks(1, n, per), EMBEDDING_MODEL)
    /\ faiss_index_file = File(index)
    /\ meta_pkl_file = File(metadata)
    /\ model_name_file = File(EMBEDDING_MODEL)
    /\ ingest_pc = "idle"
    /\ ingest_doc = 0
    /\ encoder = EMBEDDING_MODEL
    /\ assistant = "ready"
    /\ retrieved_chunks = <<>>
    /\ result = NoResult
    /\ outcome = "none"
    /\ prompt_log = <<>>
    /\ call_top_k = 0
    /\ log_failed = FALSE
    /\ NoChunkerCall
    /\ NoCreateCall
    /\ NoGateCall
    /\ NoSimpleUI

Next == Ask \/ Retrieve \/ Display

Spec == Init /\ [][Next]_vars

-----------------------------------------------------------------------------
\* Persistence: ingest.main saving through utils.save_embeddings, and
\* HandbookAssistant.__init__ loading through utils.load_embeddings.

NoIndex == [d |-> 0, model |-> "none", rows |-> <<>>]

\* Handbook version d yields DocSize(d) chunks, one per page: versions 1
\* and 2 one chunk each, 3 and 4 two each, and so on.
DocSize(d) == (d + 1) \div 2

IngestChunks(d) == DocChunks(d, DocSize(d), 1)

\* faiss.write_index(index, index_path), writing over any earlier file
\* (utils.py:105). The run has chunked and embedded handbook version d.
SaveWriteIndex ==
    /\ assistant # "ready"
    /\ ingest_pc = "idle"
    /\ \E d \in 1..MaxDocs :
         /\ faiss_index_file' = File(BuildIndex(IngestChunks(d), EMBEDDING_MODEL))
         /\ ingest_doc' = d
    /\ ingest_pc' = "wrote_index"
    /\ UNCHANGED <<query_vars, prompt_log, meta_pkl_file, model_name_file>>
    /\ UNCHANGED <<chunk_vars, create_vars, gate_vars, simple_vars>>

\* pickle.dump(metadata, f) into meta_path (utils.py:107-108).
SaveWriteMeta ==
    /\ assistant # "ready"
    /\ ingest_pc = "wrote_index"
    /\ meta_pkl_file' = File(IngestChunks(ingest_doc))
    /\ ingest_pc' = "wrote_meta"
    /\ UNCHANGED <<query_vars, prompt_log, faiss_index_file, model_name_file,
                   ingest_doc>>
    /\ UNCHANGED <<chunk_vars, create_vars, gate_vars, simple_vars>>

\* f.write(model_name) into config.MODEL_NAME_FILE (utils.py:110-111); the
\* run is over.
SaveWriteModelName ==
    /\ assistant # "ready"
    /\ ingest_pc = "wrote_meta"
    /\ model_name_file' = File(EMBEDDING_MODEL)
    /\ ingest_pc' = "idle"
    /\ ingest_doc' = 0
    /\ UNCHANGED <<query_vars, prompt_log, faiss_index_file, meta_pkl_file>>
    /\ UNCHANGED <<chunk_vars, create_vars, gate_vars, simple_vars>>

\* The ingestion run is killed (or raises) between two writes.
IngestInterrupted ==
    /\ assistant # "ready"
    /\ ingest_pc # "idle"
    /\ ingest_pc' = "idle"
    /\ ingest_doc' = 0
    /\ UNCHANGED <<query_vars, prompt_log, faiss_index_file, meta_pkl_file,
                   model_name_file>>
    /\ UNCHANGED <<chunk_vars, create_vars, gate_vars, simple_vars>>

\* index = faiss.read_index(index_path) (utils.py:119), after main found
\* the index file to exist (ask.py:178).
LoadReadIndex ==
    /\ assistant = "none"
    /\ faiss_index_file.exists
    /\ index' = faiss_index_file.content
    /\ assistant' = "loading"
    /\ UNCHANGED <<metadata, encoder, retrieved_chunks, result, outcome,
                   call_top_k, log_failed, prompt_log, disk_vars>>
    /\ UNCHANGED <<chunk_vars, create_vars, gate_vars, simple_vars>>

\* The pair load_embeddings returns for an index it has read and the
\* metadata file's content (utils.py:121-124): neither the lengths nor
\* model_name.txt are looked at.
load_embeddings(read_index, meta_file) == <<read_index, meta_file>>

\* metadata = pickle.load(f) and the rest of __init__ (utils.py:121-124,
\* ask.py:42-55): the encoder is built from the model the configuration
\* names when this process runs. A missing meta.pkl raises.
LoadReadMeta ==
    /\ assistant = "loading"
    /\ LET pair == IF ~meta_pkl_file.exists THEN <<>>
                   ELSE load_embeddings(index, meta_pkl_file.content)
       IN  IF pair = <<>>
           THEN /\ assistant' = "none"
                /\ index' = NoIndex
                /\ UNCHANGED <<metadata, encoder>>
           ELSE /\ index' = pair[1]
                /\ metadata' = pair[2]
                /\ \E m \in Models : encoder' = m
                /\ assistant' = "ready"
    /\ UNCHANGED <<retrieved_chunks, result, outcome, call_top_k, log_failed,
                   prompt_log, disk_vars>>
    /\ UNCHANGED <<chunk_vars, create_vars, gate_vars, simple_vars>>

\* The assistant process exits (ask.py:218-220).
Quit ==
    /\ assistant = "ready"
    /\ outcome = "none"
    /\ assistant' = "none"
    /\ index' = NoIndex
    /\ metadata' = <<>>
    /\ encoder' = "none"
    /\ UNCHANGED <<retrieved_chunks, result, outcome, call_top_k, log_failed,
                   prompt_log, disk_vars>>
    /\ UNCHANGED <<chunk_vars, create_vars, gate_vars, simple_vars>>

\* Nothing persisted yet and no assistant running.
InitPersist ==
    /\ index = NoIndex
    /\ metadata = <<>>
    /\ encoder = "none"
    /\ assistant = "none"
    /\ retrieved_chunks = <<>>
    /\ result = NoResult
    /\ outcome = "none"
    /\ prompt_log = <<>>
    /\ call_top_k = 0
    /\ log_failed = FALSE
    /\ faiss_index_file = NoFile
    /\ meta_pkl_file = NoFile
    /\ model_name_file = NoFile
    /\ ingest_pc = "idle"
    /\ ingest_doc = 0
    /\ NoChunkerCall
    /\ NoCreateCall
    /\ NoGateCall
    /\ NoSimpleUI

\* Ingestion runs and assistant processes interleave. An assistant that
\* has loaded reads no persisted file again, so the steps an ingestion run
\* takes while it serves are taken here after it has exited.
NextPersist ==
    \/ SaveWriteIndex
    \/ SaveWriteMeta
    \/ SaveWriteModelName
    \/ IngestInterrupted
    \/ LoadReadIndex
    \/ LoadReadMeta
    \/ Ask
    \/ Display
    \/ Quit

SpecPersist == InitPersist /\ [][NextPersist]_vars

\* C5: whenever load_embeddings has returned a pair, the index has as many
\* vectors as the metadata list has entries and row i is the vector of
\* metadata entry i.
C5_LoadedPairAligned ==
    assistant = "ready" =>
        /\ Len(index.rows) = Len(metadata)
        /\ \A i \in 1..Len(metadata) : index.rows[i] = metadata[i].text

\* C6: no query is served by an assistant whose encoder is not the model
\* recorded with the persisted index, or has another dimension than it.
C6_NoQueryServedOnModelMismatch ==
    (outcome \in {"answered", "declined"} /\ model_name_file.exists) =>
        /\ model_name_file.content = encoder
        /\ encoder = index.model
        /\ Dim(encoder) = index.d

-----------------------------------------------------------------------------
\* The chunker as a function of its inputs.

\* The words and the separators page texts are made of.
Vocabulary == {<< <<"A">>, <<"B">> >>, << <<"a">> >>, << <<"1">>, DOT >>}

Separators == {<<SP>>, <<NL>>}

\* Overlap fractions, in percent: none, the configured 0.30, a half, three
\* quarters, and two that leave no positive stride.
OverlapPcts == {0, 30, 50, 75, 100, 150}

\* Minimum chunk sizes (config.MIN_CHUNK_SIZE).
MinSizes == {1, 2}

\* words[1] seps[1] words[2] seps[2] ...
RECURSIVE PageText(_, _)
PageText(words, seps) ==
    IF words = <<>> THEN <<>>
    ELSE words[1] \o seps[1] \o PageText(Tail(words), Tail(seps))

\* A page text arrives (ingest.py:83-90).
ChunkerCalled ==
    /\ chunk_pc = "idle"
    /\ \E n \in 0..MaxWords :
         \E words \in [1..n -> Vocabulary], seps \in [1..n -> Separators] :
            text' = PageText(words, seps)
    /\ chunk_size_words' \in 1..MaxChunkSize
    /\ overlap_pct' \in OverlapPcts
    /\ min_chunk_size' \in MinSizes
    /\ page_chunks' = <<>>
    /\ chunk_pc' = "called"
    /\ UNCHANGED <<query_vars, prompt_log, disk_vars, create_vars, gate_vars, simple_vars>>

\* The call runs to its return or its exception.
ChunkText ==
    /\ chunk_pc = "called"
    /\ LET r == chunk_text_with_overlap(text, 1, chunk_size_words, overlap_pct,
                                        min_chunk_size)
       IN  /\ page_chunks' = r.chunks
           /\ chunk_pc' = IF r.error = "none" THEN "returned" ELSE "raised"
    /\ UNCHANGED <<text, chunk_size_words, overlap_pct, min_chunk_size>>
    /\ UNCHANGED <<query_vars, prompt_log, disk_vars, create_vars, gate_vars, simple_vars>>

InitChunk ==
    /\ index = NoIndex
    /\ metadata = <<>>
    /\ encoder = "none"
    /\ assistant = "none"
    /\ retrieved_chunks = <<>>
    /\ result = NoResult
    /\ outcome = "none"
    /\ prompt_log = <<>>
    /\ call_top_k = 0
    /\ log_failed = FALSE
    /\ faiss_index_file = NoFile
    /\ meta_pkl_file = NoFile
    /\ model_name_file = NoFile
    /\ ingest_pc = "idle"
    /\ ingest_doc = 0
    /\ NoChunkerCall
    /\ NoCreateCall
    /\ NoGateCall
    /\ NoSimpleUI

NextChunk == ChunkerCalled \/ ChunkText

SpecChunk == InitChunk /\ [][NextChunk]_vars

\* The chunker on pages of long words: chunk texts on both sides of the
\* 100-character limit of the heading test.
Repeat(c, n) == [i \in 1..n |-> c]

LongVocabulary ==
    {Repeat(<<"A">>, 49), Repeat(<<"A">>, 50), << <<"1">>, DOT >>, << <<"a">> >>}

\* The overlap fractions, in percent, that leave a positive stride for
\* every chunk size: only those calls produce chunks.
ProducingOverlaps == {0, 30, 50}

\* A page of long words arrives (ingest.py:83-90).
LongPageArrives ==
    /\ chunk_pc = "idle"
    /\ \E n \in 0..MaxWords :
         \E words \in [1..n -> LongVocabulary], seps \in [1..n -> Separators] :
            text' = PageText(words, seps)
    /\ chunk_size_words' \in 1..MaxChunkSize
    /\ overlap_pct' \in ProducingOverlaps
    /\ min_chunk_size' \in MinSizes
    /\ page_chunks' = <<>>
    /\ chunk_pc' = "called"
    /\ UNCHANGED <<query_vars, prompt_log, disk_vars, create_vars, gate_vars,
                   simple_vars>>

NextSection == LongPageArrives \/ ChunkText

SpecSection == InitChunk /\ [][NextSection]_vars

\* C10: every chunk chunk_text_with_overlap returns has between min_words
\* and target_words words, and its word_count is the number of
\* whitespace-delimited tokens of its text.
C10_ChunkWordCountBounds ==
    chunk_pc = "returned" =>
        \A i \in 1..Len(page_chunks) :
            /\ min_chunk_size <= page_chunks[i].word_count
            /\ page_chunks[i].word_count <= chunk_size_words
            /\ page_chunks[i].word_count = Len(Split(page_chunks[i].text))

C10_Witness ==
    /\ chunk_pc = "returned"
    /\ Len(page_chunks) >= 2
    /\ page_chunks[1].word_count = chunk_size_words
    /\ page_chunks[Len(page_chunks)].word_count = min_chunk_size
    /\ page_chunks[Len(page_chunks)].word_count < chunk_size_words

\* The stride of the call: target_words - floor(target_words * overlap).
Stride == chunk_size_words - OverlapWords(chunk_size_words, overlap_pct)

\* Chunk k of the returned list read as a window of the page's words: the
\* 0-based position it starts at and the position after its last word.
StartOf(k) == (k - 1) * Stride
EndOf(k) == StartOf(k) + page_chunks[k].word_count

\* The number of word positions chunks k and k+1 have in common.
Shared(k) ==
    LET e == IF EndOf(k) < EndOf(k + 1) THEN EndOf(k) ELSE EndOf(k + 1)
    IN  IF e > StartOf(k + 1) THEN e - StartOf(k + 1) ELSE 0

\* C11: with a stride of at least 1, each chunk of a page starts exactly
\* stride words after the one before it, and two consecutive chunks share
\* exactly overlap_words words; only the pair ending with the page's last
\* chunk may share fewer.
C11_ConsecutiveChunksOverlap ==
    (chunk_pc = "returned" /\ Stride >= 1) =>
        /\ \A k \in 1..Len(page_chunks) :
              Split(page_chunks[k].text)
                 = SubSeq(Split(text), StartOf(k) + 1, EndOf(k))
        /\ \A k \in 1..(Len(page_chunks) - 1) :
              IF k + 1 < Len(page_chunks)
              THEN Shared(k) = OverlapWords(chunk_size_words, overlap_pct)
              ELSE Shared(k) <= OverlapWords(chunk_size_words, overlap_pct)

\* C13: a call with an overlap fraction of 1 or more (a stride of 0 or
\* less) on a page of at least min_words words raises an error; it never
\* returns a chunk list.
C13_NonPositiveStrideIsAnError ==
    (chunk_pc \in {"returned", "raised"}
       /\ overlap_pct >= 100
       /\ Len(Split(text)) >= min_chunk_size)
        => chunk_pc = "raised"

-----------------------------------------------------------------------------
\* create_chunks (ingest.py:65-102).

\* for chunk in page_chunks: chunk['chunk_id'] = chunk_id; chunk_id += 1
NumberChunks(chunks, chunk_id) ==
    [i \in 1..Len(chunks) |-> [chunk_id |-> chunk_id + i - 1] @@ chunks[i]]

\* The loop over the sorted page numbers still to do; all is all_chunks so
\* far. An exception of the chunker leaves the function.
RECURSIVE ChunkPages(_, _, _, _, _, _, _)
ChunkPages(texts, pages, all, chunk_id, size, pct, min_size) ==
    IF pages = <<>> THEN [error |-> "none", chunks |-> all]
    ELSE LET r == chunk_text_with_overlap(texts[pages[1]], pages[1], size, pct,
                                          min_size)
         IN  IF r.error # "none" THEN [error |-> r.error, chunks |-> <<>>]
             ELSE ChunkPages(texts, Tail(pages),
                             all \o NumberChunks(r.chunks, chunk_id),
                             chunk_id + Len(r.chunks), size, pct, min_size)

\* create_chunks with chunk_id starting at 1.
create_chunks_from_one(texts, size, pct, min_size) ==
    LET r == ChunkPages(texts, Sorted(DOMAIN texts), <<>>, 1, size, pct, min_size)
    IN  IF r.error = "none" /\ Len(r.chunks) = 0
        THEN [error |-> "ZeroDivisionError", chunks |-> <<>>]
        ELSE r

\* [error, chunks]. The average printed at ingest.py:99 divides by
\* len(all_chunks).
create_chunks(texts, size, pct, min_size) ==
    LET r == ChunkPages(texts, Sorted(DOMAIN texts), <<>>, 0, size, pct, min_size)
    IN  IF r.error = "none" /\ Len(r.chunks) = 0
        THEN [error |-> "ZeroDivisionError", chunks |-> <<>>]
        ELSE r

\* The text of page p when it has n words: n distinct one-letter words.
PageOfWords(p, n) == JoinWords([i \in 1..n |-> <<W(p, i)>>])

\* ingest.main calls create_chunks(page_texts) under some configuration; it
\* returns before the call when no page has text (ingest.py:185-190).
CreateChunksCalled ==
    /\ create_pc = "idle"
    /\ \E pages \in (SUBSET (1..MaxPages)) \ {{}} :
         \E n \in [pages -> 0..MaxWords] :
            page_texts' = [p \in pages |-> PageOfWords(p, n[p])]
    /\ chunk_size_words' \in 1..MaxChunkSize
    /\ overlap_pct' \in OverlapPcts
    /\ min_chunk_size' \in MinSizes
    /\ all_chunks' = <<>>
    /\ create_pc' = "called"
    /\ UNCHANGED <<text, page_chunks, chunk_pc>>
    /\ UNCHANGED <<query_vars, prompt_log, disk_vars, gate_vars, simple_vars>>

\* The call runs to its return or its exception.
CreateChunks ==
    /\ create_pc = "called"
    /\ LET r == create_chunks(page_texts, chunk_size_words, overlap_pct,
                              min_chunk_size)
       IN  /\ all_chunks' = r.chunks
           /\ create_pc' = IF r.error = "none" THEN "returned" ELSE "raised"
    /\ UNCHANGED <<page_texts, chunk_vars>>
    /\ UNCHANGED <<query_vars, prompt_log, disk_vars, gate_vars, simple_vars>>

NextCreate == CreateChunksCalled \/ CreateChunks

SpecCreate == InitChunk /\ [][NextCreate]_vars

\* The chunks of page p in a list, without their chunk ids.
OfPage(chunks, p) ==
    LET sel == SelectSeq(chunks, LAMBDA c : c.page = p)
    IN  [i \in 1..Len(sel) |->
            [text |-> sel[i].text, page |-> sel[i].page,
             section |-> sel[i].section, word_count |-> sel[i].word_count]]

\* C12: in the list create_chunks returns the chunk at position i (from 0)
\* has chunk_id i, page numbers ascend, and the chunks of one page are in the
\* order the chunker produced them.
C12_ChunkIdsArePositions ==
    create_pc = "returned" =>
        /\ \A i \in 1..Len(all_chunks) : all_chunks[i].chunk_id = i - 1
        /\ \A i, j \in 1..Len(all_chunks) :
              i < j => all_chunks[i].page <= all_chunks[j].page
        /\ \A p \in DOMAIN page_texts :
              OfPage(all_chunks, p)
                 = chunk_text_with_overlap(page_texts[p], p, chunk_size_words,
                                           overlap_pct, min_chunk_size).chunks
        /\ \A i \in 1..Len(all_chunks) : all_chunks[i].page \in DOMAIN page_texts

C12_Witness ==
    /\ create_pc = "returned"
    /\ \E p, q \in DOMAIN page_texts :
          /\ p < q
          /\ Len(OfPage(all_chunks, p)) >= 2
          /\ Len(OfPage(all_chunks, q)) >= 1
    /\ \E p \in DOMAIN page_texts : Len(OfPage(all_chunks, p)) = 0

\* C14: a page with fewer than min_words words yields no chunk and is no
\* error: whatever the mapping of pages to text, also when no page yields a
\* chunk, create_chunks returns the chunks of the other pages.
C14_ShortPagesAreSkipped ==
    (create_pc \in {"returned", "raised"} /\ Stride >= 1) =>
        /\ create_pc = "returned"
        /\ \A p \in DOMAIN page_texts :
              Len(Split(page_texts[p])) < min_chunk_size
                 => OfPage(all_chunks, p) = <<>>

-----------------------------------------------------------------------------
\* The relevance gate as a function of the retrieved list and of the
\* configured threshold.

\* Values of config.SIMILARITY_THRESHOLD, in hundredths.
Thresholds == {-25, 0, SIMILARITY_THRESHOLD}

\* Cosine similarities, in hundredths.
GateScores == Scores \cup {-1, 0}

\* check_relevance is handed a list of scored chunks, best first, possibly
\* empty (ask.py:118).
GateCalled ==
    /\ gate_pc = "idle"
    /\ \E n \in 0..MaxGateChunks :
         \E scoreOf \in [1..n -> GateScores] :
            /\ \A i, j \in 1..n : i < j => scoreOf[i] >= scoreOf[j]
            /\ gate_chunks' = [j \in 1..n |-> WithScore(DocChunk(1, j, 1), scoreOf[j])]
    /\ gate_threshold' \in Thresholds
    /\ gate_result' = <<>>
    /\ gate_pc' = "called"
    /\ UNCHANGED <<query_vars, prompt_log, disk_vars, chunk_vars, create_vars, simple_vars>>

\* if not self.check_relevance(retrieved_chunks): return {...} (ask.py:118-125);
\* otherwise ask() goes on to format the answer.
CheckRelevance ==
    /\ gate_pc = "called"
    /\ IF ~check_relevance_under(gate_chunks, gate_threshold)
       THEN /\ gate_pc' = "declined"
            /\ gate_result' = DeclinedResult
       ELSE /\ gate_pc' = "passed"
            /\ gate_result' = <<>>
    /\ UNCHANGED <<gate_chunks, gate_threshold>>
    /\ UNCHANGED <<query_vars, prompt_log, disk_vars, chunk_vars, create_vars, simple_vars>>

NextGate == GateCalled \/ CheckRelevance

SpecGate == Init /\ [][NextGate]_vars

\* C20 as stated: for an empty retrieved list the gate takes 0 as the highest
\* score and compares it with the threshold, declining exactly when
\* 0 < threshold and letting the query through when threshold <= 0.
C20_EmptyListComparedWithThreshold ==
    (gate_pc \in {"declined", "passed"} /\ gate_chunks = <<>>) =>
        ((gate_pc = "declined") <=> (0 < gate_threshold))

\* C20 as amended: for an empty retrieved list the gate declines whatever
\* the threshold, and the declined result reports a max_score of 0.
C20_EmptyListIsDeclined ==
    (gate_pc \in {"declined", "passed"} /\ gate_chunks = <<>>) =>
        /\ gate_pc = "declined"
        /\ gate_result.max_score = 0

C20_Witness ==
    /\ gate_pc = "declined"
    /\ gate_chunks = <<>>
    /\ gate_threshold <= 0

-----------------------------------------------------------------------------
\* Claims about the query pipeline (checked under Spec).

MaxScore(chunks) == Max({chunks[i].score : i \in 1..Len(chunks)})

\* An ask() call got as far as the relevance gate.
AskReachedGate == outcome \in {"answered", "declined"} \/ log_failed

\* A call of retrieve(), direct or from ask(), has returned its list.
RetrieveReturned == outcome \in {"retrieved", "answered", "declined"} \/ log_failed

\* C1: for a non-empty retrieved list, ask() declines if and only if the
\* highest retrieved score is strictly below the threshold, and a call that
\* returns with the top score equal to the threshold returns an answer.
C1_GateAtThreshold ==
    (AskReachedGate /\ retrieved_chunks # <<>>) =>
        /\ (outcome = "declined") <=>
               (MaxScore(retrieved_chunks) < SIMILARITY_THRESHOLD)
        /\ (outcome \in {"answered", "declined"}
              /\ MaxScore(retrieved_chunks) = SIMILARITY_THRESHOLD)
               => outcome = "answered"

C1_Witness ==
    /\ outcome = "answered"
    /\ MaxScore(retrieved_chunks) = SIMILARITY_THRESHOLD

\* C2: an answered result's sources are the whole retrieved list in
\* retrieval order; chunks scoring below the threshold stay in it.
C2_SourcesAreWholeRetrievedList ==
    outcome = "answered" =>
        /\ result.sources = retrieved_chunks
        /\ Len(result.sources) = call_top_k

C2_Witness ==
    /\ outcome = "answered"
    /\ \E i \in 1..Len(result.sources) :
          /\ result.sources[i].score < SIMILARITY_THRESHOLD
          /\ result.sources[i].score # PadScore

\* C3: a declined result carries the fixed decline string, no sources, no
\* pages and confidence "low".
C3_DeclinedResultShape ==
    outcome = "declined" =>
        /\ result.answer = DECLINE
        /\ result.sources = <<>>
        /\ result.pages = <<>>
        /\ result.confidence = "low"

C3_Witness ==
    /\ outcome = "declined"
    /\ retrieved_chunks # <<>>
    /\ MaxScore(retrieved_chunks) = SIMILARITY_THRESHOLD - 1

\* C4: retrieve() with top_k above the number n of stored chunks returns
\* exactly n results, one per stored chunk, none repeated.
C4_TopKAboveCorpusReturnsCorpus ==
    (RetrieveReturned /\ call_top_k > Len(index.rows)) =>
        /\ Len(retrieved_chunks) = Len(index.rows)
        /\ \A i, j \in 1..Len(retrieved_chunks) :
              i # j => retrieved_chunks[i].chunk_id # retrieved_chunks[j].chunk_id

\* C7: when log_prompt raises, ask() still returns the answered result it
\* returns when logging succeeds.
C7_LogFailureDoesNotFailQuery ==
    log_failed =>
        /\ outcome = "answered"
        /\ result = AnsweredResult(retrieved_chunks)

\* C8: an answered result reports the highest source score as max_score,
\* confidence "high" exactly when it is above 0.5 and "medium" otherwise;
\* "low" is reported by declined results only.
C8_ConfidenceFromMaxScore ==
    /\ outcome = "answered" =>
          /\ result.max_score = MaxScore(result.sources)
          /\ (result.confidence = "high") <=> (result.max_score > HighConfidence)
          /\ (result.confidence = "medium") <=> (result.max_score <= HighConfidence)
    /\ result.confidence = "low" => outcome = "declined"

C8_Witness ==
    /\ outcome = "answered"
    /\ result.max_score = HighConfidence
    /\ result.confidence = "medium"
    /\ \E i \in 1..Len(result.sources) : result.sources[i].score < HighConfidence

\* C9: the list retrieve() returns has at most top_k entries, scores in
\* non-increasing order, and among equal scores the lower stored index first.
C9_RetrieveOrderAndTieBreak ==
    RetrieveReturned =>
        /\ Len(retrieved_chunks) <= call_top_k
        /\ \A i, j \in 1..Len(retrieved_chunks) :
              i < j =>
                /\ retrieved_chunks[i].score >= retrieved_chunks[j].score
                /\ (retrieved_chunks[i].score = retrieved_chunks[j].score
                      => retrieved_chunks[i].chunk_id <= retrieved_chunks[j].chunk_id)

-----------------------------------------------------------------------------
\* Claims about the answer text (checked under Spec).

\* The pieces of s between the occurrences of the token sep.
RECURSIVE SplitAt(_, _)
SplitAt(s, sep) ==
    IF \A i \in 1..Len(s) : s[i] # sep THEN <<s>>
    ELSE LET i == CHOOSE k \in 1..Len(s) :
                     s[k] = sep /\ \A j \in 1..(k - 1) : s[j] # sep
         IN  <<SubSeq(s, 1, i - 1)>> \o SplitAt(SubSeq(s, i + 1, Len(s)), sep)

\* The token is a page citation " (p. N)".
IsCite(token) == Len(token) = 2 /\ token[1] = " (p. )"

\* The pages cited in an answer text, in the order of the citations.
Citations(answer) ==
    LET cites == SelectSeq(answer, IsCite)
    IN  [k \in 1..Len(cites) |-> cites[k][2]]

\* C15: the answer for a non-empty list is one block per distinct page, the
\* blocks in ascending page order whatever the input order and joined by a
\* blank line, each block the texts of that page's chunks in input order
\* joined by a newline and followed by " (p. <page>)".
C15_FormatBlocksByAscendingPage ==
    outcome = "answered" =>
        LET blocks == SplitAt(result.answer, BLANK)
            body(k) == SubSeq(blocks[k], 1, Len(blocks[k]) - 1)
            cite(k) == blocks[k][Len(blocks[k])]
            grp(k) == PageGroup(retrieved_chunks, cite(k)[2])
        IN  /\ \A k \in 1..Len(blocks) : blocks[k] # <<>> /\ IsCite(cite(k))
            /\ \A k \in 1..(Len(blocks) - 1) : cite(k)[2] < cite(k + 1)[2]
            /\ {cite(k)[2] : k \in 1..Len(blocks)}
                  = {retrieved_chunks[i].page : i \in 1..Len(retrieved_chunks)}
            /\ \A k \in 1..Len(blocks) :
                  SplitAt(body(k), NL) = [i \in 1..Len(grp(k)) |-> grp(k)[i].text]

C15_Witness ==
    /\ outcome = "answered"
    /\ \E i, j \in 1..Len(retrieved_chunks) :
          i < j /\ retrieved_chunks[i].page > retrieved_chunks[j].page
    /\ \E i, j \in 1..Len(retrieved_chunks) :
          /\ i < j
          /\ retrieved_chunks[i].page = retrieved_chunks[j].page
          /\ retrieved_chunks[i].chunk_id > retrieved_chunks[j].chunk_id

\* Position t of the answer lies inside an occurrence of a chunk's text.
InsideAText(answer, t, chunks) ==
    \E i \in 1..Len(chunks) :
        \E a \in 1..t :
            /\ t < a + Len(chunks[i].text)
            /\ a + Len(chunks[i].text) - 1 <= Len(answer)
            /\ SubSeq(answer, a, a + Len(chunks[i].text) - 1) = chunks[i].text

\* C16: the answer for a non-empty list holds every input chunk's text as a
\* contiguous piece, and what is left outside those pieces is separators
\* and page citations only.
C16_FormatInventsNoText ==
    outcome = "answered" =>
        /\ \A i \in 1..Len(retrieved_chunks) :
              \E t \in 1..Len(result.answer) :
                  /\ t + Len(retrieved_chunks[i].text) - 1 <= Len(result.answer)
                  /\ SubSeq(result.answer, t, t + Len(retrieved_chunks[i].text) - 1)
                        = retrieved_chunks[i].text
        /\ \A t \in 1..Len(result.answer) :
              \/ result.answer[t] \in {NL, BLANK}
              \/ IsCite(result.answer[t])
              \/ InsideAText(result.answer, t, retrieved_chunks)

C16_Witness ==
    /\ outcome = "answered"
    /\ \E t \in 1..Len(result.answer) : result.answer[t] = NL
    /\ \E t \in 1..Len(result.answer) : result.answer[t] = BLANK

\* C17: the answer ask() returns is the fixed decline string exactly when
\* the outcome is declined; format_retrieved_chunks gives that same string
\* for an empty list, and for no non-empty list.
C17_DeclineStringIffDeclined ==
    /\ format_retrieved_chunks(<<>>) = DeclinedResult.answer
    /\ outcome \in {"answered", "declined"} =>
          /\ (result.answer = format_retrieved_chunks(<<>>)) <=> (outcome = "declined")
          /\ outcome = "answered" =>
                /\ retrieved_chunks # <<>>
                /\ format_retrieved_chunks(retrieved_chunks) # DeclinedResult.answer

C17_Witness ==
    /\ outcome = "declined"
    /\ retrieved_chunks # <<>>
    /\ result.answer = format_retrieved_chunks(<<>>)

\* C18: the pages of a result are strictly ascending (sorted, no
\* duplicates), are exactly the pages of the chunks in sources, and are the
\* pages of the " (p. N)" citations of the answer text in the same order.
C18_PagesAreTheCitedPages ==
    outcome \in {"answered", "declined"} =>
        /\ \A k \in 1..(Len(result.pages) - 1) : result.pages[k] < result.pages[k + 1]
        /\ Range(result.pages)
              = {result.sources[i].page : i \in 1..Len(result.sources)}
        /\ Citations(result.answer) = result.pages

C18_Witness ==
    /\ outcome = "answered"
    /\ Len(result.pages) >= 2
    /\ Len(result.pages) < Len(result.sources)
    /\ result.sources[1].page > result.sources[2].page

\* The fields of a chunk record as ingestion stores it.
StoredFields == {"chunk_id", "page", "text", "section", "word_count"}

\* C19: no call of retrieve() or ask() changes the loaded index or the
\* loaded metadata list: after any sequence of queries every stored chunk has
\* the fields and values it had when it was loaded, and no score.
C19_QueriesLeaveStoreUnchanged ==
    assistant = "ready" =>
        /\ index = faiss_index_file.content
        /\ metadata = meta_pkl_file.content
        /\ \A i \in 1..Len(metadata) : DOMAIN metadata[i] = StoredFields

C19_Witness ==
    /\ outcome = "answered"
    /\ Len(prompt_log) = MaxLog
    /\ \A i \in 1..Len(retrieved_chunks) :
          DOMAIN retrieved_chunks[i] = StoredFields \cup {"score"}

-----------------------------------------------------------------------------
\* The simple chat UI (app_simple.py).

\* str.lower() of one character.
LowerChar(c) ==
    IF c = <<"A">> THEN <<"a">> ELSE IF c = <<"B">> THEN <<"b">> ELSE c

\* str.lower().
Lower(s) == [i \in 1..Len(s) |-> LowerChar(s[i])]

\* SimpleHandbookAssistant.simple_retrieve (app_simple.py:32-55). The score
\* is the fraction of the query's words the chunk's text has, in hundredths;
\* chunks of score 0 are left out, list.sort keeps equal scores in stored
\* order.
simple_retrieve(meta, query, top_k) ==
    LET query_words == Range(Split(Lower(query)))
        chunk_words(i) == Range(Split(Lower(meta[i].text)))
        scoreOf == [i \in 1..Len(meta) |->
                      IF query_words = {} THEN 0
                      ELSE (100 * Cardinality(query_words \cap chunk_words(i)))
                              \div Cardinality(query_words)]
        top == TopRows(scoreOf, {i \in 1..Len(meta) : scoreOf[i] > 0}, top_k, "asc")
    IN  [j \in 1..Len(top) |-> WithScore(meta[top[j][2] + 1], top[j][1])]

\* What answer_question returns when it declines.
SimpleDeclined(log) ==
    [answer |-> DECLINE, sources |-> <<>>, max_score |-> 0, log |-> log]

\* SimpleHandbookAssistant.answer_question (app_simple.py:57-76): the
\* returned triple, and the interaction log after the call.
answer_question(meta, log, question) ==
    LET chunks == simple_retrieve(meta, question, TOP_K)
    IN  IF chunks = <<>> THEN SimpleDeclined(log)
        ELSE IF chunks[1].score < SIMILARITY_THRESHOLD THEN SimpleDeclined(log)
        ELSE [answer |-> format_retrieved_chunks(chunks),
              sources |-> chunks,
              max_score |-> chunks[1].score,
              log |-> log_prompt(log, question, chunks,
                                 format_retrieved_chunks(chunks))]

\* The two messages one question adds to the chat (app_simple.py:417-434,
\* and the same lines at 371-387).
UserMessage(question) == [role |-> "user", content |-> question]

AssistantMessage(r) ==
    [role |-> "assistant",
     content |-> r.answer,
     pages |-> {r.sources[i].page : i \in 1..Len(r.sources)},
     confidence |-> r.max_score]

\* The source details under the chat (app_simple.py:400-412): the log after
\* the sources of the last assistant response have been fetched.
source_details(meta, log, history) ==
    LET responses == {i \in 1..Len(history) : history[i].role = "assistant"}
    IN  IF responses = {} THEN log
        ELSE LET last == history[Max(responses)]
                 assistant_idx == Max(responses) - 1
             IN  IF last.confidence >= SIMILARITY_THRESHOLD /\ assistant_idx > 0
                 THEN answer_question(meta, log, history[assistant_idx].content).log
                 ELSE log

\* The questions typed into the chat input: one every chunk matches, one
\* (with a capital) a single chunk half matches, one nothing matches, and one
\* the chunks match in one word of five.
ChatQuestions ==
    {<<W(1, 0)>>,
     <<W(1, 1), SP, <<"A">> >>,
     << <<"A">> >>,
     <<W(1, 0), SP, <<"a">>, SP, <<"b">>, SP, <<"1">>, SP, DOT>>}

\* The questions behind the quick-question buttons (app_simple.py:148-155).
QuickQuestions == {<<W(1, 0)>>, << <<"B">> >>}

\* One question is answered and its two messages join the chat, then
\* st.rerun() (app_simple.py:417-436 and 368-389).
HandleQuestion(log, history, question) ==
    \E r \in {answer_question(metadata, log, question)} :
        /\ chat_history' = history \o <<UserMessage(question), AssistantMessage(r)>>
        /\ prompt_log' = r.log
        /\ ui_pc' = "rerun"

\* The script run st.rerun() starts: a pending quick question is handled
\* first (main, 367-389); otherwise the page is rendered and nothing is
\* clicked.
Rerun ==
    /\ ui_pc = "rerun"
    /\ runs < MaxRuns
    /\ runs' = runs + 1
    /\ IF last_question # <<>>
       THEN /\ HandleQuestion(prompt_log, chat_history, last_question)
            /\ last_question' = <<>>
       ELSE /\ prompt_log' = source_details(metadata, prompt_log, chat_history)
            /\ ui_pc' = "idle"
            /\ UNCHANGED <<chat_history, last_question>>
    /\ UNCHANGED <<query_vars, disk_vars, chunk_vars, create_vars, gate_vars,
                   submitted>>

\* The script run a question typed into st.chat_input starts (main, 391-436).
SubmitQuestion ==
    /\ ui_pc = "idle"
    /\ runs < MaxRuns
    /\ runs' = runs + 1
    /\ submitted' = submitted + 1
    /\ \E question \in ChatQuestions :
         HandleQuestion(source_details(metadata, prompt_log, chat_history),
                        chat_history, question)
    /\ UNCHANGED <<query_vars, disk_vars, chunk_vars, create_vars, gate_vars,
                   last_question>>

\* The script run a click on a quick-question button starts (main, 391-412,
\* display_quick_questions, 143-166).
QuickQuestion ==
    /\ ui_pc = "idle"
    /\ runs < MaxRuns
    /\ runs' = runs + 1
    /\ submitted' = submitted + 1
    /\ prompt_log' = source_details(metadata, prompt_log, chat_history)
    /\ last_question' \in QuickQuestions
    /\ ui_pc' = "rerun"
    /\ UNCHANGED <<query_vars, disk_vars, chunk_vars, create_vars, gate_vars,
                   chat_history>>

\* The script run a click on Clear Conversation starts (main, 391-412 and
\* 438-442).
ClearConversation ==
    /\ ui_pc = "idle"
    /\ runs < MaxRuns
    /\ chat_history # <<>>
    /\ runs' = runs + 1
    /\ prompt_log' = source_details(metadata, prompt_log, chat_history)
    /\ chat_history' = <<>>
    /\ ui_pc' = "rerun"
    /\ UNCHANGED <<query_vars, disk_vars, chunk_vars, create_vars, gate_vars,
                   last_question, submitted>>

NextSimple == Rerun \/ SubmitQuestion \/ QuickQuestion \/ ClearConversation

SpecSimple == Init /\ [][NextSimple]_vars

-----------------------------------------------------------------------------
\* Claims about the interaction log.

\* C21: the interaction log only grows: the log before a step is a prefix
\* of the log after it, a call of ask() that answers appends exactly one
\* record and a call that declines appends none.
C21_LogOnlyGrows ==
    [][/\ Len(prompt_log') >= Len(prompt_log)
       /\ SubSeq(prompt_log', 1, Len(prompt_log)) = prompt_log
       /\ outcome' = "answered" => Len(prompt_log') = Len(prompt_log) + 1
       /\ outcome' = "declined" => prompt_log' = prompt_log]_vars

C21_Witness ==
    /\ outcome = "answered"
    /\ Len(prompt_log) >= 2
    /\ prompt_log[Len(prompt_log)].top = Len(result.sources)

\* C22: in the simple chat UI the number of records in the interaction log
\* never exceeds the number of questions submitted.
C22_LogNeverExceedsSubmissions == Len(prompt_log) <= submitted

-----------------------------------------------------------------------------
\* Claims about the chunks of a page.

\* The call's configuration meets the conditions of C23: a positive stride,
\* target_words >= min_words and overlap_words >= min_words - 1.
CoveringConfiguration ==
    /\ Stride >= 1
    /\ chunk_size_words >= min_chunk_size
    /\ OverlapWords(chunk_size_words, overlap_pct) >= min_chunk_size - 1

\* Word p (1-based) of the page is a word of returned chunk k.
Covers(k, p) ==
    /\ StartOf(k) < p
    /\ p <= EndOf(k)
    /\ Split(page_chunks[k].text)[p - StartOf(k)] = Split(text)[p]

\* C23: for a page of at least min_words words and a configuration with
\* stride >= 1, target_words >= min_words and overlap_words >= min_words - 1,
\* every word of the page is in at least one returned chunk.
C23_EveryWordIsCovered ==
    (chunk_pc = "returned"
       /\ CoveringConfiguration
       /\ Len(Split(text)) >= min_chunk_size)
        => \A p \in 1..Len(Split(text)) :
              \E k \in 1..Len(page_chunks) : Covers(k, p)

\* A short trailing window was discarded: the walk stopped at a position
\* inside the page.
C23_Witness ==
    /\ chunk_pc = "returned"
    /\ CoveringConfiguration
    /\ Len(Split(text)) >= min_chunk_size
    /\ Len(page_chunks) >= 2
    /\ Len(page_chunks) * Stride < Len(Split(text))

\* C24: the text of a produced chunk has exactly one line; when it is 100 or
\* more characters long its section is the fallback (the first 50 characters
\* of the text, stripped, followed by '...'); the section of every produced
\* chunk is at most 99 characters long.
C24_SectionOfProducedChunks ==
    chunk_pc = "returned" =>
        \A i \in 1..Len(page_chunks) :
            /\ Len(SplitLines(page_chunks[i].text)) = 1
            /\ Len(page_chunks[i].text) >= 100 =>
                  page_chunks[i].section
                     = Strip(SubSeq(page_chunks[i].text, 1, 50)) \o <<DOT, DOT, DOT>>
            /\ Len(page_chunks[i].section) <= 99

\* A page of several lines gave an upper-case chunk of 100 characters or
\* more and a chunk whose section is a heading of 99 characters.
C24_Witness ==
    /\ chunk_pc = "returned"
    /\ Len(SplitLines(text)) > 1
    /\ \E i \in 1..Len(page_chunks) :
          /\ Len(page_chunks[i].text) >= 100
          /\ IsUpper(page_chunks[i].text)
    /\ \E j \in 1..Len(page_chunks) :
          /\ Len(page_chunks[j].section) = 99
          /\ page_chunks[j].section = page_chunks[j].text
====
